---- MODULE Spec2Model ----
(***************************************************************************)
(* Model of class Inhibitor (src/inhibitor.h): the gate that inhibits      *)
(* releasing the ball while the turntable speed varies too much.           *)
(*                                                                         *)
(* The program state is the two fields mLastTurnTime and mInhibitRounds.   *)
(* The three public methods are the three actions.  The variables call,    *)
(* ticks, sampled, crossedEver and lastSample are observers: they record   *)
(* the call that has just returned and what the call sequence has been so  *)
(* far, and no method reads them.                                          *)
(*                                                                         *)
(* The variable sw is a second Inhibitor, used by SpecSwap only: there the *)
(* two instances receive the same calls, except that one adjacent pair of  *)
(* a fine sample and a revolution tick reaches the second instance in the  *)
(* opposite order.                                                         *)
(*                                                                         *)
(* The comparison of line 39 is done in double arithmetic.  It is modelled *)
(* as IEEE-754 binary64: a finite non-negative double is a record          *)
(* [e, m] with m the leading bit 1 followed by the 13 hex digits of the    *)
(* fraction field, of value 1.m[2]m[3]... (base 16) * 2^e, and zero is the *)
(* record with the empty significand.                                      *)
(* The division rounds to nearest, ties to even.  The periods of the model *)
(* are far below 2^53, so static_cast<double> of a period and the          *)
(* difference of two such doubles are exact, and no quotient is subnormal  *)
(* or overflows.                                                           *)
(***************************************************************************)
EXTENDS Integers, Naturals, Sequences, FiniteSets, TLC

VARIABLES mLastTurnTime, mInhibitRounds, call, ticks, sampled, crossedEver,
          lastSample, sw

vars == <<mLastTurnTime, mInhibitRounds, call, ticks, sampled, crossedEver,
          lastSample, sw>>

(***************************************************************************)
(* Bounds of the model.                                                    *)
(***************************************************************************)
\* turn times 1..MaxPeriod are passed to the callbacks
MaxPeriod == 27
\* the observer ticks stops counting at TickCap
TickCap == 4

\* turn times of the documented examples that lie above MaxPeriod
ExamplePeriods == {92, 100, 925, 1000, 1050, 1100}

Periods == (1..MaxPeriod) \cup ExamplePeriods

(***************************************************************************)
(* Widths and constants of the program.                                    *)
(***************************************************************************)
\* unsigned short mInhibitRounds: arithmetic modulo 2^16
UShortModulus == 65536
\* double has a 52-bit fraction field: FractionDigits hex digits
FractionDigits == 13
HexBase == 16
\* mInhibitRounds = 2
INHIBIT_ROUNDS == 2

(***************************************************************************)
(* binary64 values.                                                        *)
(***************************************************************************)
\* a normal double from its unbiased exponent and the hex digits of its
\* 52-bit fraction field
DoubleOfFraction(e, hs) == [e |-> e, m |-> <<1>> \o hs]

DoubleZero == [e |-> 0, m |-> <<>>]

\* +infinity, the quotient of a positive double by 0.0: above every finite
\* double
DoubleInfinity ==
  [e |-> 1024, m |-> <<1, 0, 0, 0, 0, 0, 0, 0, 0, 0, 0, 0, 0, 0>>]

\* 0.08f widened to double: 0x3FB47AE140000000
ThresholdAsFloat ==
  DoubleOfFraction(-4, <<4, 7, 10, 14, 1, 4, 0, 0, 0, 0, 0, 0, 0>>)

\* const double RELATIVE_INHIBITION_THRESHOLD = 0.08: 0x3FB47AE147AE147B
RELATIVE_INHIBITION_THRESHOLD ==
  DoubleOfFraction(-4, <<4, 7, 10, 14, 1, 4, 7, 10, 14, 1, 4, 7, 11>>)

\* scale n / d into [1, 2): n / d = (r[1] / r[2]) * 2^r[3], r[2] <= r[1] < 2 r[2]
RECURSIVE Normalise(_, _, _)
Normalise(n, d, e) ==
  IF n < d THEN Normalise(2 * n, d, e - 1)
  ELSE IF n >= 2 * d THEN Normalise(n, 2 * d, e + 1)
  ELSE <<n, d, e>>

\* k further hex digits of the quotient, for a remainder r < d, appended to
\* digits; <<digits, remainder left>>
RECURSIVE LongDivision(_, _, _, _)
LongDivision(r, d, k, digits) ==
  IF k = 0 THEN <<digits, r>>
  ELSE LongDivision((HexBase * r) % d, d, k - 1,
                    Append(digits, (HexBase * r) \div d))

\* the significand plus one unit in the last place; <<carry, digits>>
RECURSIVE Increment(_)
Increment(digits) ==
  IF Len(digits) = 1
  THEN <<digits[1] - 1, <<1>>>>
  ELSE LET n    == Len(digits)
           init == SubSeq(digits, 1, n - 1)
       IN  IF digits[n] < HexBase - 1
           THEN <<0, Append(init, digits[n] + 1)>>
           ELSE LET up == Increment(init)
                IN  <<up[1], Append(up[2], 0)>>

\* double(n) / double(d) for integers 0 <= n, 0 < d: the quotient rounded to
\* nearest, ties to even
DivideDouble(n, d) ==
  IF n = 0 THEN DoubleZero
  ELSE LET s       == Normalise(n, d, 0)
           q       == LongDivision(s[1] - s[2], s[2], FractionDigits, <<1>>)
           roundUp == \/ 2 * q[2] > s[2]
                      \/ 2 * q[2] = s[2] /\ q[1][FractionDigits + 1] % 2 = 1
           up      == Increment(q[1])
       IN  IF ~roundUp THEN [e |-> s[3], m |-> q[1]]
           ELSE [e |-> s[3] + up[1], m |-> up[2]]

\* x > y for finite non-negative doubles
GreaterDouble(x, y) ==
  IF x.m = <<>> THEN FALSE
  ELSE IF y.m = <<>> THEN TRUE
  ELSE IF x.e # y.e THEN x.e > y.e
  ELSE \E i \in 1..(FractionDigits + 1) :
         /\ x.m[i] > y.m[i]
         /\ \A j \in 1..(i - 1) : x.m[j] = y.m[j]

(***************************************************************************)
(* lightSpeedCallback, line by line.                                       *)
(***************************************************************************)
\* the fabs is missing: a negative difference is never above the threshold,
\* which the value 0 stands for
fabsDifferenceSigned(last, turnTime) ==
  IF last >= turnTime THEN last - turnTime ELSE 0

\* fabs(static_cast<double>(mLastTurnTime) - static_cast<double>(turnTime)):
\* both casts and the subtraction are exact, the value is an integer
fabsDifference(last, turnTime) ==
  IF last >= turnTime THEN last - turnTime ELSE turnTime - last

\* divides by the previous turn time
relativeDifferenceToLast(last, turnTime) ==
  IF last = 0 THEN DoubleInfinity
  ELSE DivideDouble(fabsDifference(last, turnTime), last)

\* ... / static_cast<double>(turnTime)
relativeDifference(last, turnTime) ==
  DivideDouble(fabsDifference(last, turnTime), turnTime)

\* a first sample is let through without a comparison
exceedsSkippingFirst(last, turnTime) ==
  /\ last # 0
  /\ GreaterDouble(relativeDifference(last, turnTime),
                   RELATIVE_INHIBITION_THRESHOLD)

\* the condition of the if statement
exceedsThreshold(last, turnTime) ==
  GreaterDouble(relativeDifference(last, turnTime),
                RELATIVE_INHIBITION_THRESHOLD)

\* arms for one round
lightRoundsOneRound(rounds, last, turnTime) ==
  IF exceedsThreshold(last, turnTime) THEN 1 ELSE rounds

\* arms only when not armed
lightRoundsNoRearm(rounds, last, turnTime) ==
  IF exceedsThreshold(last, turnTime) /\ rounds = 0 THEN INHIBIT_ROUNDS
  ELSE rounds

\* a quiet sample clears the counter
lightRoundsClearing(rounds, last, turnTime) ==
  IF exceedsThreshold(last, turnTime) THEN INHIBIT_ROUNDS ELSE 0

\* arms on every sample
lightRoundsAlways(rounds, last, turnTime) == INHIBIT_ROUNDS

\* mInhibitRounds after the if statement
lightRounds(rounds, last, turnTime) ==
  IF exceedsThreshold(last, turnTime) THEN INHIBIT_ROUNDS ELSE rounds

\* the turn time is stored only inside the if statement
lightLastOnlyWhenArming(last, turnTime) ==
  IF exceedsThreshold(last, turnTime) THEN turnTime ELSE last

\* mLastTurnTime = turnTime
lightLast(last, turnTime) == turnTime

(***************************************************************************)
(* hallSpeedCallback and isInhibited.                                      *)
(***************************************************************************)
\* decrements without the test
hallRoundsUnguarded(rounds) == (rounds - 1) % UShortModulus

\* clears the counter at once
hallRoundsClearing(rounds) == 0

\* the test is > 1: the last round is never counted down
hallRoundsStuckAtOne(rounds) ==
  IF rounds > 1 THEN (rounds - 1) % UShortModulus ELSE rounds

\* if (mInhibitRounds > 0) mInhibitRounds--
hallRounds(rounds) ==
  IF rounds > 0 THEN (rounds - 1) % UShortModulus ELSE rounds

\* reports only a full counter
isInhibitedWhenFull == mInhibitRounds = INHIBIT_ROUNDS

\* return (mInhibitRounds != 0)
isInhibited == mInhibitRounds # 0

(***************************************************************************)
(* Observers.                                                              *)
(***************************************************************************)
\* |a - b| in the integers
Distance(a, b) == IF a >= b THEN a - b ELSE b - a

\* the relative deviation |last - turnTime| / turnTime is above 8 %, in
\* exact rational arithmetic
DeviationAbove(last, turnTime) ==
  100 * Distance(last, turnTime) > 8 * turnTime

\* the relative deviation is exactly 8 %
DeviationExact(last, turnTime) ==
  100 * Distance(last, turnTime) = 8 * turnTime

Saturate(n) == IF n < TickCap THEN n + 1 ELSE TickCap

Record(op, arg, ret) ==
  [op         |-> op,
   arg        |-> arg,
   ret        |-> ret,
   preLast    |-> mLastTurnTime,
   preRounds  |-> mInhibitRounds,
   preTicks   |-> ticks,
   preSampled |-> sampled,
   preSample  |-> lastSample]

(***************************************************************************)
(* The state machine.                                                      *)
(***************************************************************************)
Init ==
  /\ mLastTurnTime = 0
  /\ mInhibitRounds = 0
  /\ call = [op |-> "none", arg |-> 0, ret |-> FALSE, preLast |-> 0,
             preRounds |-> 0, preTicks |-> 0, preSampled |-> FALSE,
             preSample |-> 0]
  /\ ticks = 0
  /\ sampled = FALSE
  /\ crossedEver = FALSE
  /\ lastSample = 0
  /\ sw = [phase |-> "before", last |-> 0, rounds |-> 0, pending |-> 0,
           tickNo |-> 0, clearA |-> -1, clearB |-> -1]

lightSpeedCallback(turnTime) ==
  /\ mInhibitRounds' = lightRounds(mInhibitRounds, mLastTurnTime, turnTime)
  /\ mLastTurnTime' = lightLast(mLastTurnTime, turnTime)
  /\ call' = Record("light", turnTime, FALSE)
  /\ ticks' = IF DeviationAbove(mLastTurnTime, turnTime) THEN 0 ELSE ticks
  /\ sampled' = TRUE
  /\ crossedEver' = (crossedEver \/ DeviationAbove(mLastTurnTime, turnTime))
  /\ lastSample' = turnTime
  /\ UNCHANGED sw

\* the tick stores its argument as the previous turn time
hallSpeedCallbackStoring(turnTime) ==
  /\ mInhibitRounds' = hallRounds(mInhibitRounds)
  /\ mLastTurnTime' = turnTime

\* the tick forgets the previous turn time
hallSpeedCallbackResetting(turnTime) ==
  /\ mInhibitRounds' = hallRounds(mInhibitRounds)
  /\ mLastTurnTime' = 0

\* what hallSpeedCallback does to the fields: the parameter is unnamed and
\* mLastTurnTime is not written
hallSpeedCallbackEffect(turnTime) ==
  /\ mInhibitRounds' = hallRounds(mInhibitRounds)
  /\ UNCHANGED mLastTurnTime

hallSpeedCallback(turnTime) ==
  /\ hallSpeedCallbackEffect(turnTime)
  /\ call' = Record("hall", turnTime, FALSE)
  /\ ticks' = Saturate(ticks)
  /\ UNCHANGED <<sampled, crossedEver, lastSample, sw>>

\* the query consumes the inhibition
isInhibitedCallClearing ==
  /\ call' = Record("query", 0, isInhibited)
  /\ mInhibitRounds' = 0
  /\ UNCHANGED <<mLastTurnTime, ticks, sampled, crossedEver, lastSample, sw>>

isInhibitedCall ==
  /\ call' = Record("query", 0, isInhibited)
  /\ UNCHANGED <<mLastTurnTime, mInhibitRounds, ticks, sampled, crossedEver,
                 lastSample, sw>>

Next ==
  \/ \E turnTime \in Periods : lightSpeedCallback(turnTime)
  \/ \E turnTime \in Periods : hallSpeedCallback(turnTime)
  \/ isInhibitedCall

Spec == Init /\ [][Next]_vars

\* the hall sensor keeps reporting completed rounds
SpecLive ==
  Init /\ [][Next]_vars
       /\ WF_vars(\E turnTime \in Periods : hallSpeedCallback(turnTime))

(***************************************************************************)
(* Two instances and one swapped pair of calls.  The fields of the first   *)
(* instance, which gets the calls in order, are mLastTurnTime and          *)
(* mInhibitRounds; those of the second are sw.last and sw.rounds.  Ticks   *)
(* are numbered from the tick of the swapped pair, which is tick 0, and    *)
(* sw.clearA, sw.clearB are the numbers of the tick at which either        *)
(* instance last went from inhibited to not inhibited (-1: it has not).    *)
(***************************************************************************)
Observed == UNCHANGED <<call, ticks, sampled, crossedEver, lastSample>>

ClearAt(before, after, n, old) ==
  IF before # 0 /\ after = 0 THEN n ELSE old

\* lightSpeedCallback(turnTime) on both instances
BothLight(turnTime) ==
  /\ sw.phase \in {"before", "after"}
  /\ mInhibitRounds' = lightRounds(mInhibitRounds, mLastTurnTime, turnTime)
  /\ mLastTurnTime' = lightLast(mLastTurnTime, turnTime)
  /\ sw' = [sw EXCEPT !.rounds = lightRounds(sw.rounds, sw.last, turnTime),
                      !.last = lightLast(sw.last, turnTime)]
  /\ Observed

\* hallSpeedCallback on both instances
BothHall ==
  /\ \/ sw.phase = "before"
     \/ sw.phase = "after" /\ sw.tickNo < TickCap
  /\ mInhibitRounds' = hallRounds(mInhibitRounds)
  /\ UNCHANGED mLastTurnTime
  /\ sw' = IF sw.phase = "before"
           THEN [sw EXCEPT !.rounds = hallRounds(sw.rounds)]
           ELSE [sw EXCEPT
                   !.rounds = hallRounds(sw.rounds),
                   !.tickNo = sw.tickNo + 1,
                   !.clearA = ClearAt(mInhibitRounds,
                                      hallRounds(mInhibitRounds),
                                      sw.tickNo + 1, sw.clearA),
                   !.clearB = ClearAt(sw.rounds, hallRounds(sw.rounds),
                                      sw.tickNo + 1, sw.clearB)]
  /\ Observed

\* first call of the swapped pair: the first instance gets the fine sample,
\* the second instance the revolution tick
SwapFirst(turnTime) ==
  /\ sw.phase = "before"
  /\ mInhibitRounds' = lightRounds(mInhibitRounds, mLastTurnTime, turnTime)
  /\ mLastTurnTime' = lightLast(mLastTurnTime, turnTime)
  /\ sw' = [sw EXCEPT
              !.phase = "mid",
              !.pending = turnTime,
              !.rounds = hallRounds(sw.rounds),
              !.clearB = ClearAt(sw.rounds, hallRounds(sw.rounds), 0, -1)]
  /\ Observed

\* second call of the swapped pair: the first instance gets the revolution
\* tick, the second instance the fine sample
SwapSecond ==
  /\ sw.phase = "mid"
  /\ mInhibitRounds' = hallRounds(mInhibitRounds)
  /\ UNCHANGED mLastTurnTime
  /\ sw' = [sw EXCEPT
              !.phase = "after",
              !.pending = 0,
              !.rounds = lightRounds(sw.rounds, sw.last, sw.pending),
              !.last = lightLast(sw.last, sw.pending),
              !.clearA = ClearAt(mInhibitRounds, hallRounds(mInhibitRounds),
                                 0, sw.clearA)]
  /\ Observed

NextSwap ==
  \/ \E turnTime \in Periods : BothLight(turnTime)
  \/ BothHall
  \/ \E turnTime \in Periods : SwapFirst(turnTime)
  \/ SwapSecond

SpecSwap == Init /\ [][NextSwap]_vars

TypeOK ==
  /\ mLastTurnTime \in {0} \cup Periods
  /\ mInhibitRounds \in 0..(UShortModulus - 1)
  /\ ticks \in 0..TickCap
  /\ sampled \in BOOLEAN
  /\ crossedEver \in BOOLEAN
  /\ call.op \in {"none", "light", "hall", "query"}
  /\ lastSample \in {0} \cup Periods

(***************************************************************************)
(* Properties.  In each, call is the call that has just returned: call.arg *)
(* its argument and call.preLast, call.preRounds the fields before it.     *)
(***************************************************************************)

\* C1: after every call of a sequence of fine samples with positive periods
\* and revolution ticks, starting from a fresh Inhibitor, mInhibitRounds is
\* 0, 1 or 2: it never exceeds 2 and never wraps below zero.
C1_RoundsInRange == mInhibitRounds \in {0, 1, 2}

\* a revolution tick delivered to a cleared counter has left it at zero, and
\* a fine sample has armed it to the maximum before
C1_Witness ==
  /\ call.op = "hall"
  /\ call.preRounds = 0
  /\ mInhibitRounds = 0
  /\ crossedEver

\* C2: in every reachable state isInhibited() is true exactly when
\* mInhibitRounds > 0, the value a query returns is that of the counter it
\* was called on, and a fresh Inhibitor is not inhibited.
C2_InhibitedIffPositive ==
  /\ isInhibited <=> mInhibitRounds > 0
  /\ call.op = "query" => (call.ret <=> call.preRounds > 0)
  /\ call.op = "none" => ~isInhibited

\* a query has returned true on a counter that is neither 0 nor full
C2_Witness ==
  /\ call.op = "query"
  /\ call.ret
  /\ mInhibitRounds = 1

\* C3: the very first fine sample on a fresh Inhibitor (mLastTurnTime = 0,
\* mInhibitRounds = 0), with any number of revolution ticks before it, sets
\* mInhibitRounds to 2 for every positive period, so isInhibited() is true.
C3_BootArm ==
  (call.op = "light" /\ ~call.preSampled) =>
    /\ call.preLast = 0
    /\ call.preRounds = 0
    /\ mInhibitRounds = 2
    /\ isInhibited

\* the first fine sample has come after two or more revolution ticks
C3_Witness ==
  /\ call.op = "light"
  /\ ~call.preSampled
  /\ call.preTicks >= 2
  /\ mInhibitRounds = 2

\* C4: counting revolution ticks from the last fine sample that crossed the
\* threshold, isInhibited() is true after zero and after one tick and false
\* from the second tick on, whatever non-crossing fine samples come between.
C4_ClearsAtSecondTick ==
  crossedEver => (isInhibited <=> ticks < 2)

\* the second revolution tick after a crossing sample has just cleared the
\* inhibition
C4_Witness ==
  /\ crossedEver
  /\ call.op = "hall"
  /\ call.preTicks = 1
  /\ ticks = 2
  /\ call.preRounds = 1
  /\ ~isInhibited

\* C5: a fine sample whose relative deviation is above the threshold leaves
\* mInhibitRounds at 2 whatever it was before the call (0, 1 or 2).
C5_RearmDominance ==
  (call.op = "light" /\ DeviationAbove(call.preLast, call.arg)) =>
    mInhibitRounds = 2

\* a crossing sample has re-armed a counter that had run down to 1
C5_Witness ==
  /\ call.op = "light"
  /\ DeviationAbove(call.preLast, call.arg)
  /\ call.preRounds = 1
  /\ mInhibitRounds = 2

\* C6: a revolution tick decrements mInhibitRounds by exactly one when it is
\* above zero and leaves it alone when it is zero; it never increases it, so
\* ticks delivered to a cleared Inhibitor leave it cleared.
C6_TickDecrementsOrNoOp ==
  call.op = "hall" =>
    /\ call.preRounds > 0 => mInhibitRounds = call.preRounds - 1
    /\ call.preRounds = 0 => mInhibitRounds = 0
    /\ mInhibitRounds <= call.preRounds

\* a run of revolution ticks has gone on after the counter was cleared
C6_Witness ==
  /\ call.op = "hall"
  /\ call.preRounds = 0
  /\ mInhibitRounds = 0
  /\ call.preTicks >= 3

\* C7: a fine sample whose relative deviation does not exceed the threshold
\* leaves mInhibitRounds exactly as it was, for every prior value 0, 1, 2.
C7_QuietSampleKeepsRounds ==
  (call.op = "light" /\ ~DeviationAbove(call.preLast, call.arg)) =>
    mInhibitRounds = call.preRounds

\* a differing but non-crossing sample has come while one round remained
C7_Witness ==
  /\ call.op = "light"
  /\ ~DeviationAbove(call.preLast, call.arg)
  /\ call.preLast # call.arg
  /\ call.preRounds = 1
  /\ mInhibitRounds = 1

\* C8: after every fine sample mLastTurnTime is the period of that sample,
\* whether or not the call armed, so every fine sample is compared against
\* the period of the fine sample before it.
C8_LastIsSample ==
  /\ call.op = "light" => mLastTurnTime = call.arg
  /\ call.op = "light" => call.preLast = call.preSample
  /\ mLastTurnTime = lastSample

\* a sample that did not arm has replaced a different stored period
C8_Witness ==
  /\ call.op = "light"
  /\ ~DeviationAbove(call.preLast, call.arg)
  /\ call.preLast # call.arg
  /\ call.preSampled
  /\ mInhibitRounds = 0
  /\ mLastTurnTime = call.arg

\* C9: a fine sample whose relative deviation is exactly 0.08 does not arm:
\* it leaves mInhibitRounds unchanged (the comparison is strict).
C9_ExactThresholdDoesNotArm ==
  (call.op = "light" /\ DeviationExact(call.preLast, call.arg)) =>
    mInhibitRounds = call.preRounds

\* the sample 25 has followed the sample 27 on a cleared Inhibitor
C9_Witness ==
  /\ call.op = "light"
  /\ call.preLast = 27
  /\ call.arg = 25
  /\ call.preRounds = 0
  /\ ~isInhibited

\* C10: a fine sample equal to the stored period leaves both mLastTurnTime
\* and mInhibitRounds unchanged.
C10_SteadyStateIdempotent ==
  (call.op = "light" /\ call.preLast = call.arg) =>
    /\ mLastTurnTime = call.preLast
    /\ mInhibitRounds = call.preRounds

\* the stored period has been sampled again while one round remained
C10_Witness ==
  /\ call.op = "light"
  /\ call.preLast = call.arg
  /\ call.preRounds = 1
  /\ mInhibitRounds = 1

\* C11: isInhibited() is a pure query: a call changes neither mInhibitRounds
\* nor mLastTurnTime, and a call that follows another call with no callback
\* in between returns the same value.
C11_QueryIsPure ==
  [][call'.op = "query" =>
       /\ mInhibitRounds' = mInhibitRounds
       /\ mLastTurnTime' = mLastTurnTime
       /\ call'.ret = isInhibited
       /\ call.op = "query" => call'.ret = call.ret]_vars

\* a query has returned true and left a full counter and the stored period
C11_Witness ==
  /\ call.op = "query"
  /\ call.ret
  /\ call.preRounds = 2
  /\ mInhibitRounds = 2
  /\ mLastTurnTime = call.preLast
  /\ mLastTurnTime > 0

\* C12: a fine sample p > 0 arms (stores 2) exactly when
\* 100 * |mLastTurnTime - p| > 8 * p, the new sample being the denominator;
\* from 1000 the sample 1050 does not arm and the samples 1100 and 925 arm.
C12_ArmsExactlyAboveThreshold ==
  call.op = "light" =>
    /\ mInhibitRounds =
         IF 100 * Distance(call.preLast, call.arg) > 8 * call.arg
         THEN 2 ELSE call.preRounds
    /\ call.preRounds # 2 =>
         (mInhibitRounds = 2 <=>
            100 * Distance(call.preLast, call.arg) > 8 * call.arg)
    /\ (call.preLast = 1000 /\ call.arg = 1050 /\ call.preRounds = 0) =>
         mInhibitRounds = 0
    /\ (call.preLast = 1000 /\ call.arg \in {925, 1100}) =>
         mInhibitRounds = 2

\* the sample 925 has armed a cleared Inhibitor whose stored period was 1000
C12_Witness ==
  /\ call.op = "light"
  /\ call.preLast = 1000
  /\ call.arg = 925
  /\ call.preRounds = 0
  /\ mInhibitRounds = 2

\* C13: the arming test is symmetric around the sample: for a sample p and
\* a stored period p + k or p - k with 0 <= k <= p, the decision taken is
\* the decision the code takes for the stored period mirrored at p.
C13_SymmetricAroundSample ==
  (call.op = "light" /\ 2 * call.arg - call.preLast >= 0) =>
    mInhibitRounds =
      lightRounds(call.preRounds, 2 * call.arg - call.preLast, call.arg)

\* a stored period below the sample has armed a cleared Inhibitor, and so
\* does its mirror image above the sample
C13_Witness ==
  /\ call.op = "light"
  /\ call.preLast > 0
  /\ call.preLast < call.arg
  /\ call.preRounds = 0
  /\ mInhibitRounds = 2
  /\ exceedsThreshold(2 * call.arg - call.preLast, call.arg)

\* C14: the flag goes from false to true only in a fine sample, and from
\* true to false only in a revolution tick, namely the tick that takes
\* mInhibitRounds from 1 to 0; a fine sample never clears it and a tick
\* never sets it.
C14_FlagTransitions ==
  /\ (call.preRounds = 0 /\ isInhibited) => call.op = "light"
  /\ (call.preRounds # 0 /\ ~isInhibited) =>
       (call.op = "hall" /\ call.preRounds = 1 /\ mInhibitRounds = 0)
  /\ (call.op = "hall" /\ call.preRounds = 1) => ~isInhibited
  /\ (call.op = "light" /\ call.preRounds # 0) => isInhibited
  /\ (call.op = "hall" /\ call.preRounds = 0) => ~isInhibited

\* the tick that found one round left has cleared the flag
C14_Witness ==
  /\ call.op = "hall"
  /\ call.preRounds = 1
  /\ mInhibitRounds = 0
  /\ ~isInhibited

\* C15: the argument of a revolution tick is ignored: the fields a tick
\* leaves are the fields a tick with any other argument leaves.
C15_TickPayloadIgnored ==
  [][call'.op = "hall" =>
       \A turnTime \in Periods : hallSpeedCallbackEffect(turnTime)]_vars

\* a tick whose argument differs from the stored period has counted down
C15_Witness ==
  /\ call.op = "hall"
  /\ call.arg # call.preLast
  /\ call.preLast > 0
  /\ call.preRounds = 2
  /\ mInhibitRounds = 1
  /\ mLastTurnTime = call.preLast

\* C17: a revolution tick never changes mLastTurnTime, so a fine sample is
\* compared against the fine sample before it however many ticks came
\* between them.
C17_TickKeepsLast ==
  /\ call.op = "hall" => mLastTurnTime = call.preLast
  /\ call.op = "light" =>
       mInhibitRounds =
         IF DeviationAbove(call.preSample, call.arg)
         THEN 2 ELSE call.preRounds

\* a tick with an argument other than the stored period has returned
C17_Witness ==
  /\ call.op = "hall"
  /\ call.preSampled
  /\ call.arg # call.preLast
  /\ call.preTicks >= 1
  /\ mLastTurnTime = call.preLast

\* C19: with positive periods only, mInhibitRounds > 0 implies
\* mLastTurnTime > 0, and once mLastTurnTime is not zero no call makes it
\* zero again.
C19_ArmedImpliesSampled ==
  /\ mInhibitRounds > 0 => mLastTurnTime > 0
  /\ mLastTurnTime = 0 => ~isInhibited
  /\ call.preLast # 0 => mLastTurnTime # 0

\* ticks have run the counter down and the stored period is still there
C19_Witness ==
  /\ call.op = "hall"
  /\ call.preLast > 0
  /\ mLastTurnTime > 0
  /\ mInhibitRounds = 0
  /\ sampled

\* the call that has just returned is a fine sample that crossed the
\* threshold
CrossingSampleReturned ==
  call.op = "light" /\ DeviationAbove(call.preLast, call.arg)

\* C18: when revolution ticks keep occurring and from some point on no fine
\* sample crosses the threshold, isInhibited() is eventually false for
\* good; and when every two consecutive revolution ticks have a crossing
\* fine sample between them, isInhibited() stays true from the first
\* arming on.
C18_EventuallyClearOrHeld ==
  /\ (<>[](~CrossingSampleReturned)) => <>[](~isInhibited)
  /\ [](crossedEver => ticks < 2) => [](crossedEver => isInhibited)

\* the inhibition has run out and ticks go on without a crossing sample
C18_Witness ==
  /\ crossedEver
  /\ call.op = "hall"
  /\ call.preTicks >= 3
  /\ ~isInhibited

\* C16: when one fine sample is delivered after the revolution tick that
\* should have followed it, then after the pair and after every later call
\* mLastTurnTime is the same as in the in-order sequence, mInhibitRounds
\* differs by at most one, and the tick that clears the inhibition is the
\* same tick or a neighbouring one.
C16_SwapShiftsByAtMostOne ==
  sw.phase = "after" =>
    /\ sw.last = mLastTurnTime
    /\ Distance(sw.rounds, mInhibitRounds) <= 1
    /\ (sw.clearA # -1 /\ sw.clearB # -1) =>
         Distance(sw.clearA, sw.clearB) <= 1
    /\ (isInhibited # (sw.rounds # 0)) => mInhibitRounds + sw.rounds = 1

\* the swapped sequence has cleared one revolution later than the in-order
\* sequence
C16_Witness ==
  /\ sw.phase = "after"
  /\ sw.clearA = 1
  /\ sw.clearB = 2
  /\ sw.last = mLastTurnTime
  /\ mInhibitRounds = 0
  /\ sw.rounds = 0

====
